---- MODULE Spec2Model ----
(***************************************************************************)
(* simple-calculator: the AST whitelist evaluator (SafeEvaluator,          *)
(* evaluate_expression) and the interactive session (main, _guided_loop,   *)
(* _expression_loop) of src/simple_calculator.py.                          *)
(*                                                                         *)
(* Numbers.  The program computes with the host's int (exact, unbounded),  *)
(* float (IEEE-754 double) and, through operator.pow, complex.  The model  *)
(* keeps int exact and scales float down to a binary fixed-point grid:     *)
(* a finite float is a multiple of 1/2 of magnitude at most FloatMax       *)
(* (the analogue of sys.float_info.max), results are rounded to the grid   *)
(* (ties to even), finite results beyond FloatMax overflow the way the     *)
(* host's do (to an infinity for + - * /, to OverflowError for ** and for  *)
(* int -> float conversion), and inf and nan are values of their own.      *)
(* Signed zero is not distinguished (the program never tests the sign of   *)
(* a zero).  A complex value is kept as "some complex number": operations  *)
(* whose outcome depends on which one it is are outside the model          *)
(* (Unmodelled), and no input of the model reaches them.                   *)
(*                                                                         *)
(* Specifications.  Spec is one call of evaluate_expression on any text    *)
(* of Texts; SpecCalls is a run of calls in one process, as the loops of   *)
(* src/examples.py make them; SpecCLI is main: the argument mode and the   *)
(* interactive session, one step for each line read.                       *)
(***************************************************************************)
EXTENDS Integers, Sequences, FiniteSets, TLC

(* ------------------------------ bounds -------------------------------- *)

\* integer literals of the generated expressions are 0 .. MaxInt
\* (MaxInt <= FloatMax: the small integers convert to float)
MaxInt == 4
\* the largest finite float of the scaled-down float grid
FloatMax == 4
\* integers are computed exactly up to this magnitude; an expression whose
\* integer power would exceed it is not an input of the model
IntCap == 1000000

\* an integer literal too large to convert to float (the analogue of 10**400)
HugeInt == 4 * FloatMax + 1

(* ------------------------------ values -------------------------------- *)

\* host values: k is the type, c the float class, n the integer value
\* (int) or the value in halves (finite float)
IntV(n) == [k |-> "int", c |-> "fin", n |-> n]
FltV(h) == [k |-> "float", c |-> "fin", n |-> h]
Inf == [k |-> "float", c |-> "inf", n |-> 0]
NInf == [k |-> "float", c |-> "ninf", n |-> 0]
NaN == [k |-> "float", c |-> "nan", n |-> 0]
Cplx == [k |-> "complex", c |-> "fin", n |-> 0]
\* constants a host literal node can carry besides int and float
BoolTrue == [k |-> "bool", c |-> "fin", n |-> 1]
StrConst == [k |-> "str", c |-> "fin", n |-> 0]

\* a call's outcome: a returned value, or a raised exception and its message
Ok(v) == [exc |-> "none", msg |-> <<>>, val |-> v]
Raise(e, m) == [exc |-> e, msg |-> m, val |-> IntV(0)]
\* evaluation left the modelled part of the host arithmetic
Unmodelled == Raise("Unmodelled", <<>>)

Abs(n) == IF n < 0 THEN -n ELSE n
Sgn(n) == IF n < 0 THEN -1 ELSE IF n > 0 THEN 1 ELSE 0

\* num / den (num >= 0, den > 0) rounded to the nearest integer, ties to even
RoundDiv(num, den) ==
    LET q == num \div den
        r == num % den
    IN  IF 2 * r < den THEN q
        ELSE IF 2 * r > den THEN q + 1
        ELSE IF q % 2 = 0 THEN q ELSE q + 1

\* num / den (den # 0) rounded to the nearest integer, ties to even
RoundSigned(num, den) ==
    Sgn(num) * Sgn(den) * RoundDiv(Abs(num), Abs(den))

\* a rounded result in halves as a float: overflow gives an infinity
FromHalves(h) ==
    IF h > 2 * FloatMax THEN Inf
    ELSE IF h < -(2 * FloatMax) THEN NInf
    ELSE FltV(h)

IsZero(v) == v.c = "fin" /\ v.n = 0
IsNaN(v) == v.c = "nan"
IsInfinite(v) == v.c \in {"inf", "ninf"}
\* the sign of a float (0 for zero and nan)
FSgn(v) ==
    CASE v.c = "inf" -> 1
      [] v.c = "ninf" -> -1
      [] v.c = "nan" -> 0
      [] OTHER -> Sgn(v.n)
InfOfSign(s) == IF s < 0 THEN NInf ELSE Inf

\* PyLong_AsDouble / CONVERT_TO_DOUBLE: an int operand of a float operation
to_double(v) ==
    IF v.k = "float" THEN Ok(v)
    ELSE IF Abs(v.n) > FloatMax
         THEN Raise("OverflowError", <<"int too large to convert to float">>)
         ELSE Ok(FltV(2 * v.n))

(* ------------------- float arithmetic (floatobject.c) ------------------ *)

float_neg(v) ==
    CASE v.c = "inf" -> NInf
      [] v.c = "ninf" -> Inf
      [] v.c = "nan" -> NaN
      [] OTHER -> FltV(-v.n)

\* IEEE addition
float_add(a, b) ==
    IF IsNaN(a) \/ IsNaN(b) THEN NaN
    ELSE IF IsInfinite(a) /\ IsInfinite(b) THEN (IF a = b THEN a ELSE NaN)
    ELSE IF IsInfinite(a) THEN a
    ELSE IF IsInfinite(b) THEN b
    ELSE FromHalves(a.n + b.n)

float_sub(a, b) == float_add(a, float_neg(b))

\* IEEE multiplication: inf * 0 is nan; a finite product is rounded
float_mul(a, b) ==
    IF IsNaN(a) \/ IsNaN(b) THEN NaN
    ELSE IF IsInfinite(a) \/ IsInfinite(b)
         THEN (IF IsZero(a) \/ IsZero(b) THEN NaN
               ELSE InfOfSign(FSgn(a) * FSgn(b)))
    ELSE FromHalves(RoundSigned(a.n * b.n, 2))

\* IEEE division by a nonzero divisor
ieee_div(a, b) ==
    IF IsNaN(a) \/ IsNaN(b) THEN NaN
    ELSE IF IsInfinite(a)
         THEN (IF IsInfinite(b) THEN NaN ELSE InfOfSign(FSgn(a) * FSgn(b)))
    ELSE IF IsInfinite(b) THEN FltV(0)
    ELSE FromHalves(RoundSigned(2 * a.n, b.n))

\* C fmod(v, w), w # 0: the remainder has the sign of v
fmod(v, w) ==
    IF IsNaN(v) \/ IsNaN(w) \/ IsInfinite(v) THEN NaN
    ELSE IF IsInfinite(w) THEN v
    ELSE FltV(Sgn(v.n) * (Abs(v.n) % Abs(w.n)))

\* C floor
c_floor(v) == IF v.c = "fin" THEN FltV(2 * (v.n \div 2)) ELSE v

float_div(v, w) ==
    IF IsZero(w) THEN Raise("ZeroDivisionError", <<"float division by zero">>)
    ELSE Ok(ieee_div(v, w))

\* float_rem: fmod, moved to the divisor's sign
float_rem(v, w) ==
    IF IsZero(w) THEN Raise("ZeroDivisionError", <<"float modulo">>)
    ELSE LET mod == fmod(v, w)
         IN  IF ~IsZero(mod)
             THEN (IF (FSgn(w) < 0) # (FSgn(mod) < 0)
                   THEN Ok(float_add(mod, w)) ELSE Ok(mod))
             ELSE Ok(FltV(0))

\* float_floor_div (float_divmod): (v - fmod) / w, less one when the
\* remainder had to move to the divisor's sign, floored
float_floor_div(v, w) ==
    IF IsZero(w)
    THEN Raise("ZeroDivisionError", <<"float floor division by zero">>)
    ELSE LET mod == fmod(v, w)
             div0 == ieee_div(float_sub(v, mod), w)
             div == IF ~IsZero(mod) /\ ((FSgn(w) < 0) # (FSgn(mod) < 0))
                    THEN float_sub(div0, FltV(2)) ELSE div0
         IN  IF ~IsZero(div) THEN Ok(c_floor(div)) ELSE Ok(FltV(0))

\* acc * b^e for b >= 0, e >= 0, exact while it is at most IntCap; IntCap + 1
\* stands for every larger value
RECURSIVE CapPowAcc(_, _, _)
CapPowAcc(b, e, acc) ==
    IF e = 0 \/ acc > IntCap THEN acc
    ELSE IF b <= 1 THEN acc * b
    ELSE IF acc > IntCap \div b THEN IntCap + 1
    ELSE CapPowAcc(b, e - 1, acc * b)

CapPow(b, e) == CapPowAcc(b, e, 1)

\* the least h >= from with 16 P < (2h+1)^2 Q, i.e. 2 * sqrt(P / Q) rounded
\* to the nearest integer; 2 * FloatMax + 1 stands for every larger result
RECURSIVE RoundSqrt(_, _, _)
RoundSqrt(P, Q, from) ==
    IF from > 2 * FloatMax THEN from
    ELSE IF 16 * P < (2 * from + 1) * (2 * from + 1) * Q THEN from
    ELSE RoundSqrt(P, Q, from + 1)

\* C pow(x, w) for finite x > 0, x # 1 and finite w # 0, in halves:
\* x = n/2, w = m/2, so pow^2 = (n/2)^m
c_pow_halves(n, m) ==
    LET k == Abs(m)
        nk == CapPow(n, k)
        tk == CapPow(2, k)
    IN  IF m > 0
        THEN (IF nk > IntCap THEN 2 * FloatMax + 1 ELSE RoundSqrt(nk, tk, 0))
        ELSE (IF nk > IntCap THEN 0 ELSE RoundSqrt(tk, nk, 0))

\* DOUBLE_IS_ODD_INTEGER
IsOddInteger(w) == w.c = "fin" /\ w.n % 4 = 2
IsIntegral(w) == w.c = "fin" /\ w.n % 2 = 0

\* float_pow(v, w), both already doubles
float_pow(iv, iw) ==
    IF IsZero(iw) THEN Ok(FltV(2))
    ELSE IF IsNaN(iv) THEN Ok(iv)
    ELSE IF IsNaN(iw) THEN (IF iv = FltV(2) THEN Ok(FltV(2)) ELSE Ok(iw))
    ELSE IF IsInfinite(iw)
         THEN (IF iv.c = "fin" /\ Abs(iv.n) = 2 THEN Ok(FltV(2))
               ELSE IF (FSgn(iw) > 0) = (IsInfinite(iv) \/ Abs(iv.n) > 2)
                    THEN Ok(Inf) ELSE Ok(FltV(0)))
    ELSE IF IsInfinite(iv)
         THEN (IF FSgn(iw) > 0
               THEN (IF IsOddInteger(iw) THEN Ok(iv) ELSE Ok(Inf))
               ELSE Ok(FltV(0)))
    ELSE IF IsZero(iv)
         THEN (IF FSgn(iw) < 0
               THEN Raise("ZeroDivisionError",
                          <<"0.0 cannot be raised to a negative power">>)
               ELSE Ok(FltV(0)))
    ELSE IF iv.n < 0 /\ ~IsIntegral(iw)
         \* a negative base and a fractional exponent: complex_pow's result
         THEN Ok(Cplx)
    ELSE LET negate == iv.n < 0 /\ IsOddInteger(iw)
             h == IF Abs(iv.n) = 2 THEN 2 ELSE c_pow_halves(Abs(iv.n), iw.n)
         IN  IF h > 2 * FloatMax
             THEN Raise("OverflowError", <<"Numerical result out of range">>)
             ELSE Ok(FltV(IF negate THEN -h ELSE h))

(* -------------------- int arithmetic (longobject.c) -------------------- *)

\* C-style division of the magnitudes, as x_divrem does
TruncDiv(a, b) == Sgn(a) * Sgn(b) * (Abs(a) \div Abs(b))
TruncRem(a, b) == Sgn(a) * (Abs(a) % Abs(b))

\* l_divmod without the move to the floor (C's truncating pair)
l_divmod_Truncating(a, b) ==
    [div |-> TruncDiv(a, b), mod |-> TruncRem(a, b)]

\* l_divmod: the truncated pair, moved to the floor when the remainder's
\* sign differs from the divisor's
l_divmod(a, b) ==
    LET div == TruncDiv(a, b)
        mod == TruncRem(a, b)
    IN  IF (mod < 0 /\ b > 0) \/ (mod > 0 /\ b < 0)
        THEN [div |-> div - 1, mod |-> mod + b]
        ELSE [div |-> div, mod |-> mod]

long_div(a, b) ==
    IF b = 0
    THEN Raise("ZeroDivisionError", <<"integer division or modulo by zero">>)
    ELSE Ok(IntV(l_divmod(a, b).div))

long_mod(a, b) ==
    IF b = 0
    THEN Raise("ZeroDivisionError", <<"integer division or modulo by zero">>)
    ELSE Ok(IntV(l_divmod(a, b).mod))

\* a true division that keeps an exact quotient an int (the host's
\* classic division)
long_true_divide_ExactStaysInt(a, b) ==
    IF b = 0 THEN Raise("ZeroDivisionError", <<"division by zero">>)
    ELSE IF TruncRem(a, b) = 0 THEN Ok(IntV(TruncDiv(a, b)))
    ELSE LET h == RoundSigned(2 * a, b)
         IN  IF Abs(h) > 2 * FloatMax
             THEN Raise("OverflowError",
                        <<"integer division result too large for a float">>)
             ELSE Ok(FltV(h))

\* long_true_divide: the exact quotient, correctly rounded to a float
long_true_divide(a, b) ==
    IF b = 0 THEN Raise("ZeroDivisionError", <<"division by zero">>)
    ELSE LET h == RoundSigned(2 * a, b)
         IN  IF Abs(h) > 2 * FloatMax
             THEN Raise("OverflowError",
                        <<"integer division result too large for a float">>)
             ELSE Ok(FltV(h))

\* long_pow: a negative exponent goes to float_pow, both operands converted
long_pow(a, b) ==
    IF b < 0
    THEN LET x == to_double(IntV(a))
             y == to_double(IntV(b))
         IN  IF x.exc # "none" THEN x
             ELSE IF y.exc # "none" THEN y
             ELSE float_pow(x.val, y.val)
    ELSE IF Abs(a) >= 2 /\ b > FloatMax
         \* an exponent beyond the float range: the power exhausts the host
         THEN Unmodelled
    ELSE LET p == CapPow(Abs(a), b)
         IN  IF Abs(a) > IntCap \/ p > IntCap THEN Unmodelled
             ELSE Ok(IntV(IF a < 0 /\ b % 2 = 1 THEN -p ELSE p))

\* an exact int result, inside the range the model computes
ExactInt(n) == IF Abs(n) > IntCap THEN Unmodelled ELSE Ok(IntV(n))

long_add(a, b) == ExactInt(a + b)
long_sub(a, b) == ExactInt(a - b)
long_mul(a, b) ==
    IF b # 0 /\ Abs(a) > IntCap \div Abs(b) THEN Unmodelled ELSE ExactInt(a * b)

(* ------------- operator.* : the host's binary-op dispatch -------------- *)

\* int OP int
long_binop(name, a, b) ==
    CASE name = "add" -> long_add(a, b)
      [] name = "sub" -> long_sub(a, b)
      [] name = "mul" -> long_mul(a, b)
      [] name = "truediv" -> long_true_divide(a, b)
      [] name = "floordiv" -> long_div(a, b)
      [] name = "mod" -> long_mod(a, b)
      [] name = "pow" -> long_pow(a, b)

\* float OP float, after both operands were converted
float_binop(name, v, w) ==
    CASE name = "add" -> Ok(float_add(v, w))
      [] name = "sub" -> Ok(float_sub(v, w))
      [] name = "mul" -> Ok(float_mul(v, w))
      [] name = "truediv" -> float_div(v, w)
      [] name = "floordiv" -> float_floor_div(v, w)
      [] name = "mod" -> float_rem(v, w)
      [] name = "pow" -> float_pow(v, w)

\* an operation with a complex operand (complexobject.c): // and % are not
\* defined for complex; the other operand is converted through a double
complex_binop(name, l, r) ==
    IF name \in {"floordiv", "mod"}
    THEN Raise("TypeError", <<"unsupported operand type(s)", name>>)
    ELSE LET other == IF l.k = "complex" THEN r ELSE l
             conv == IF other.k = "complex" THEN Ok(other) ELSE to_double(other)
         IN  IF conv.exc # "none" THEN conv
             ELSE IF name \in {"add", "sub", "mul"} THEN Ok(Cplx)
             ELSE IF name = "truediv" /\ r.k # "complex"
                  THEN (IF IsZero(conv.val)
                        THEN Raise("ZeroDivisionError",
                                   <<"complex division by zero">>)
                        ELSE Ok(Cplx))
             ELSE Unmodelled

\* operator.add, .sub, .mul, .truediv, .floordiv, .mod, .pow on host numbers
BinaryFunc(name, l, r) ==
    IF l.k = "complex" \/ r.k = "complex" THEN complex_binop(name, l, r)
    ELSE IF l.k = "int" /\ r.k = "int" THEN long_binop(name, l.n, r.n)
    ELSE LET v == to_double(l)
             w == to_double(r)
         IN  IF v.exc # "none" THEN v
             ELSE IF w.exc # "none" THEN w
             ELSE float_binop(name, v.val, w.val)

\* operator.pos, operator.neg
UnaryFunc(name, x) ==
    IF name = "pos" THEN Ok(x)
    ELSE IF x.k = "int" THEN Ok(IntV(-x.n))
    ELSE IF x.k = "float" THEN Ok(float_neg(x))
    ELSE Ok(Cplx)

(* ------------------------- syntax trees (ast) -------------------------- *)

Constant(v) == [cls |-> "Constant", value |-> v]
Name == [cls |-> "Name"]
Call == [cls |-> "Call"]
BinOp(op, l, r) == [cls |-> "BinOp", op |-> op, left |-> l, right |-> r]
UnaryOp(op, x) == [cls |-> "UnaryOp", op |-> op, operand |-> x]
Expression(b) == [cls |-> "Expression", body |-> b]

\* a source text: one the host parser rejects, or the text of a tree
Malformed == [syntax |-> "error"]
TextOf(tree) == [syntax |-> "ok", body |-> tree]

\* ast.parse(expression, mode="eval")
ast_parse(text) ==
    IF text.syntax = "error" THEN [exc |-> "SyntaxError"]
    ELSE [exc |-> "none", tree |-> Expression(text.body)]

(* ---------------------------- SafeEvaluator ---------------------------- *)

VARIABLES
    binary_operators,   \* SafeEvaluator._binary_operators (class attribute)
    unary_operators,    \* SafeEvaluator._unary_operators (class attribute)
    pc,                 \* where the current evaluate_expression call stands
    expression,         \* the argument of the current call
    result,             \* what the call returned or raised
    trace,              \* the nodes visited and operators applied, in order
    earlier             \* the calls made so far, in order: text and outcome

VARIABLES
    prompt,             \* the input() the session waits at, "start" or "ended"
    first,              \* _guided_loop: first
    chosen,             \* _guided_loop: op, the symbol _choose_operation returned
    line,               \* the last line read, as input() returned it
    asked,              \* the prompt that line was read at
    printed,            \* what the last step printed
    status,             \* the process's exit status, or "running"
    ended_by            \* what ended the session

\* the class attributes as the class statement sets them
BinaryOperatorsInit ==
    [Add |-> "add", Sub |-> "sub", Mult |-> "mul", Div |-> "truediv",
     FloorDiv |-> "floordiv", Mod |-> "mod", Pow |-> "pow"]
UnaryOperatorsInit == [UAdd |-> "pos", USub |-> "neg"]

\* evaluator = SafeEvaluator(): the instance sees the class attributes
SafeEvaluator == [binary |-> binary_operators, unary |-> unary_operators]

\* a visit's result: the outcome and the events it produced
Visited(out, log) == [out |-> out, log |-> log]
Ev(what, path) == <<what, path>>

\* generic_visit: every node class without a visit_ method is rejected
generic_visit(self, node, path) ==
    Visited(Raise("ValueError",
                  <<"Expressao contem elemento nao permitido", node.cls>>),
            <<Ev("raise", path)>>)

\* visit_Constant without the bool test: True passes as the int it subclasses
visit_Constant_NoBoolTest(self, node, path) ==
    IF node.value.k \notin {"int", "float", "bool"}
    THEN Visited(Raise("ValueError", <<"Apenas numeros sao permitidos">>),
                 <<Ev("raise", path)>>)
    ELSE Visited(Ok(node.value), <<>>)

\* visit_Constant: a literal, only int and float and never bool
visit_Constant(self, node, path) ==
    IF node.value.k = "bool"
    THEN Visited(Raise("ValueError", <<"Valores booleanos nao sao permitidos">>),
                 <<Ev("raise", path)>>)
    ELSE IF node.value.k \notin {"int", "float"}
    THEN Visited(Raise("ValueError", <<"Apenas numeros sao permitidos">>),
                 <<Ev("raise", path)>>)
    ELSE Visited(Ok(node.value), <<>>)

RECURSIVE visit(_, _, _)

\* visit_BinOp without the whitelist test: the table lookup fails instead
visit_BinOp_NoOperatorTest(self, node, path) ==
    LET left == visit(self, node.left, Append(path, "left"))
    IN  IF left.out.exc # "none" THEN left
        ELSE LET right == visit(self, node.right, Append(path, "right"))
                 log == left.log \o right.log
             IN  IF right.out.exc # "none" THEN Visited(right.out, log)
                 ELSE IF node.op \notin DOMAIN self.binary
                 THEN Visited(Raise("KeyError", <<node.op>>), log)
                 ELSE Visited(BinaryFunc(self.binary[node.op],
                                         left.out.val, right.out.val),
                              Append(log, Ev("apply", path)))

\* visit_BinOp visiting the right operand first
visit_BinOp_RightFirst(self, node, path) ==
    LET right == visit(self, node.right, Append(path, "right"))
    IN  IF right.out.exc # "none" THEN right
        ELSE LET left == visit(self, node.left, Append(path, "left"))
                 log == right.log \o left.log
             IN  IF left.out.exc # "none" THEN Visited(left.out, log)
                 ELSE IF node.op \notin DOMAIN self.binary
                 THEN Visited(Raise("ValueError",
                                    <<"Operador binario nao suportado">>),
                              Append(log, Ev("raise", path)))
                 ELSE Visited(BinaryFunc(self.binary[node.op],
                                         left.out.val, right.out.val),
                              Append(log, Ev("apply", path)))

\* visit_BinOp: left, then right, then the operator's whitelist, then apply
visit_BinOp(self, node, path) ==
    LET left == visit(self, node.left, Append(path, "left"))
    IN  IF left.out.exc # "none" THEN left
        ELSE LET right == visit(self, node.right, Append(path, "right"))
                 log == left.log \o right.log
             IN  IF right.out.exc # "none" THEN Visited(right.out, log)
                 ELSE IF node.op \notin DOMAIN self.binary
                 THEN Visited(Raise("ValueError",
                                    <<"Operador binario nao suportado">>),
                              Append(log, Ev("raise", path)))
                 ELSE Visited(BinaryFunc(self.binary[node.op],
                                         left.out.val, right.out.val),
                              Append(log, Ev("apply", path)))

\* visit_UnaryOp: the operand, then the operator's whitelist, then apply
visit_UnaryOp(self, node, path) ==
    LET operand == visit(self, node.operand, Append(path, "operand"))
    IN  IF operand.out.exc # "none" THEN operand
        ELSE IF node.op \notin DOMAIN self.unary
        THEN Visited(Raise("ValueError", <<"Operador unario nao suportado">>),
                     Append(operand.log, Ev("raise", path)))
        ELSE Visited(UnaryFunc(self.unary[node.op], operand.out.val),
                     Append(operand.log, Ev("apply", path)))

\* visit_Expression
visit_Expression(self, node, path) ==
    visit(self, node.body, Append(path, "body"))

\* NodeVisitor.visit: dispatch on the node's class name
visit(self, node, path) ==
    LET v == CASE node.cls = "Expression" -> visit_Expression(self, node, path)
               [] node.cls = "BinOp" -> visit_BinOp(self, node, path)
               [] node.cls = "UnaryOp" -> visit_UnaryOp(self, node, path)
               [] node.cls = "Constant" -> visit_Constant(self, node, path)
               [] OTHER -> generic_visit(self, node, path)
    IN  Visited(v.out, <<Ev("visit", path)>> \o v.log)

\* evaluate_expression(expression) with the evaluator it constructs
evaluate_with(self, text) ==
    LET parsed == ast_parse(text)
    IN  IF parsed.exc # "none"
        THEN Visited(Raise("ValueError", <<"Expressao invalida">>), <<>>)
        ELSE visit(self, parsed.tree, <<>>)

(* ------------------------------ inputs --------------------------------- *)

BinaryOps == {"Add", "Sub", "Mult", "Div", "FloorDiv", "Mod", "Pow"}
\* what the host grammar also parses: a binary and a unary operator outside
\* the evaluator's tables (<<, not)
AllBinaryOps == BinaryOps \cup {"LShift"}
AllUnaryOps == {"UAdd", "USub", "Not"}

\* numeric literals: the host's literals are unsigned; 1e999 reads as inf
IntLiterals == {Constant(IntV(n)) : n \in 0..MaxInt} \cup {Constant(IntV(HugeInt))}
FloatLiterals == {Constant(FltV(0)), Constant(FltV(1)), Constant(FltV(3)), Constant(Inf)}
NumberLiterals == IntLiterals \cup FloatLiterals
\* True, 'a', abc, print(1)
OtherLeaves == {Constant(BoolTrue), Constant(StrConst), Name, Call}
Leaves == NumberLiterals \cup OtherLeaves

\* a literal or its negation: -x parses as UnaryOp(USub, x)
SignedOperands == NumberLiterals \cup {UnaryOp("USub", x) : x \in NumberLiterals}

\* sub-expressions of the deeper inputs: values, a division by zero, a
\* rejected name, a rejected operator, a complex power
ZeroDiv == BinOp("Div", Constant(IntV(1)), Constant(IntV(0)))
ComplexPow == BinOp("Pow", UnaryOp("USub", Constant(IntV(1))), Constant(FltV(1)))
SubExpressions ==
    {Constant(IntV(0)), Constant(IntV(1)), Constant(FltV(0)), Name, ZeroDiv, ComplexPow,
     BinOp("LShift", Constant(IntV(1)), Constant(IntV(1))),
     UnaryOp("USub", Constant(IntV(1))), UnaryOp("Not", Constant(IntV(1))),
     BinOp("Add", Constant(IntV(1)), Constant(IntV(1)))}

Trees ==
    Leaves
    \cup {BinOp(op, l, r) : op \in AllBinaryOps, l \in Leaves, r \in Leaves}
    \cup {UnaryOp(op, x) : op \in AllUnaryOps, x \in Leaves}
    \cup {BinOp(op, l, r) : op \in BinaryOps, l \in SignedOperands, r \in SignedOperands}
    \cup {BinOp(op, l, r) : op \in AllBinaryOps, l \in SubExpressions, r \in SubExpressions}
    \cup {UnaryOp(op, x) : op \in AllUnaryOps, x \in SubExpressions}

\* the evaluator as the class statement leaves it
FreshEvaluator == [binary |-> BinaryOperatorsInit, unary |-> UnaryOperatorsInit]

\* the input texts: a malformed one, and every tree whose evaluation stays
\* inside the modelled arithmetic
Texts ==
    {Malformed} \cup
    {TextOf(t) : t \in {u \in Trees :
        evaluate_with(FreshEvaluator, TextOf(u)).out.exc # "Unmodelled"}}

(* ------------------------ evaluate_expression -------------------------- *)

\* the node of a tree at a path of child names
RECURSIVE NodeAt(_, _)
NodeAt(node, path) ==
    IF path = <<>> THEN node
    ELSE LET child == CASE Head(path) = "body" -> node.body
                        [] Head(path) = "left" -> node.left
                        [] Head(path) = "right" -> node.right
                        [] Head(path) = "operand" -> node.operand
         IN  NodeAt(child, Tail(path))

NoText == [syntax |-> "none"]
NoResult == Raise("nothing", <<>>)

calc_vars == <<binary_operators, unary_operators, pc, expression, result, trace, earlier>>
cli_vars == <<prompt, first, chosen, line, asked, printed, status, ended_by>>
vars == <<calc_vars, cli_vars>>

NoValue == [k |-> "none", c |-> "fin", n |-> 0]
NoLine == <<"<none>">>
\* the session before main() runs
SessionInit ==
    /\ prompt = "start"
    /\ first = NoValue
    /\ chosen = <<>>
    /\ line = NoLine
    /\ asked = "none"
    /\ printed = <<>>
    /\ status = "running"
    /\ ended_by = "none"

\* evaluate_expression with an evaluator that drops an operator from the
\* class table once it has applied it
evaluate_expression_ConsumingOperators(text) ==
    LET r == evaluate_with(SafeEvaluator, text)
        used == {b \in DOMAIN binary_operators :
                    \E i \in 1..Len(r.log) :
                        /\ r.log[i][1] = "apply"
                        /\ text.syntax = "ok"
                        /\ LET n == NodeAt(Expression(text.body), r.log[i][2])
                           IN  n.cls = "BinOp" /\ n.op = b}
    IN  /\ expression' = text
        /\ result' = r.out
        /\ trace' = r.log
        /\ pc' = IF r.out.exc = "none" THEN "returned" ELSE "raised"
        /\ binary_operators' =
               [b \in DOMAIN binary_operators \ used |-> binary_operators[b]]
        /\ UNCHANGED unary_operators

\* one call of evaluate_expression(text): parse, construct the evaluator,
\* visit; nothing of the class is written
evaluate_expression(text) ==
    LET r == evaluate_with(SafeEvaluator, text)
    IN  /\ expression' = text
        /\ result' = r.out
        /\ trace' = r.log
        /\ pc' = IF r.out.exc = "none" THEN "returned" ELSE "raised"
        /\ UNCHANGED <<binary_operators, unary_operators>>

\* the call of a text drawn at the start
Evaluate ==
    /\ pc = "called"
    /\ evaluate_expression(expression)
    /\ UNCHANGED <<earlier, cli_vars>>

Init ==
    /\ binary_operators = BinaryOperatorsInit
    /\ unary_operators = UnaryOperatorsInit
    /\ pc = "called"
    /\ expression \in Texts
    /\ result = NoResult
    /\ trace = <<>>
    /\ earlier = <<>>
    /\ SessionInit

Next == Evaluate

Spec == Init /\ [][Next]_vars

(* ------------------------- a sequence of calls -------------------------- *)

\* how many calls one run makes
MaxCalls == 3

\* the texts a run calls with: values, every error kind, a complex result
CallTexts ==
    {Malformed, TextOf(Name), TextOf(ZeroDiv), TextOf(ComplexPow),
     TextOf(Constant(BoolTrue)),
     TextOf(BinOp("Add", Constant(IntV(1)), Constant(IntV(1)))),
     TextOf(BinOp("Pow", Constant(IntV(2)), Constant(IntV(2)))),
     TextOf(BinOp("LShift", Constant(IntV(1)), Constant(IntV(1)))),
     TextOf(UnaryOp("USub", Constant(FltV(1))))}

\* the demonstration's loop: one call after another in one process, errors
\* caught and printed
NextCall(text) ==
    /\ Len(earlier) < MaxCalls
    /\ evaluate_expression(text)
    /\ earlier' = Append(earlier, [text |-> text, out |-> result'])
    /\ UNCHANGED cli_vars

InitCalls ==
    /\ binary_operators = BinaryOperatorsInit
    /\ unary_operators = UnaryOperatorsInit
    /\ pc = "idle"
    /\ expression = NoText
    /\ result = NoResult
    /\ trace = <<>>
    /\ earlier = <<>>
    /\ SessionInit

NextCalls == \E text \in CallTexts : NextCall(text)

SpecCalls == InitCalls /\ [][NextCalls]_vars

(* ------------------------ the interactive session ----------------------- *)

\* a line of input is the sequence of its characters
EOF == <<"<EOF>">>

\* str.lower on the letters the host folds
UpperToLower ==
    [A |-> "a", B |-> "b", C |-> "c", D |-> "d", E |-> "e", F |-> "f", G |-> "g",
     H |-> "h", I |-> "i", J |-> "j", K |-> "k", L |-> "l", M |-> "m", N |-> "n",
     O |-> "o", P |-> "p", Q |-> "q", R |-> "r", S |-> "s", T |-> "t", U |-> "u",
     V |-> "v", W |-> "w", X |-> "x", Y |-> "y", Z |-> "z"]
LowerChar(c) == IF c \in DOMAIN UpperToLower THEN UpperToLower[c] ELSE c
lower(s) == [i \in 1..Len(s) |-> LowerChar(s[i])]

\* str.strip: leading and trailing white space removed
RECURSIVE lstrip(_)
lstrip(s) == IF s # <<>> /\ Head(s) = " " THEN lstrip(Tail(s)) ELSE s
RECURSIVE rstrip(_)
rstrip(s) ==
    IF s # <<>> /\ s[Len(s)] = " " THEN rstrip(SubSeq(s, 1, Len(s) - 1)) ELSE s
strip(s) == rstrip(lstrip(s))

EXIT_COMMANDS == {<<"s", "a", "i", "r">>, <<"q", "u", "i", "t">>, <<"e", "x", "i", "t">>, <<"q">>}
MENU_COMMANDS == {<<"m", "e", "n", "u">>, <<"m">>}

\* _is_exit comparing the line as typed
_is_exit_CaseSensitive(cmd) == cmd \in EXIT_COMMANDS

_is_exit(cmd) == lower(cmd) \in EXIT_COMMANDS
_is_menu(cmd) == lower(cmd) \in MENU_COMMANDS

OP_SYMBOL_TO_FUNC ==
    (<<"+">> :> "add") @@ (<<"-">> :> "sub") @@ (<<"*">> :> "mul")
    @@ (<<"/">> :> "truediv") @@ (<<"/", "/">> :> "floordiv")
    @@ (<<"%">> :> "mod") @@ (<<"*", "*">> :> "pow")

\* float(s) on the lines of the catalogue that spell a number
FloatSpellings ==
    (<<"0">> :> FltV(0)) @@ (<<"1">> :> FltV(2)) @@ (<<"2">> :> FltV(4))
    @@ (<<"4">> :> FltV(8)) @@ (<<"-", "1">> :> FltV(-2)) @@ (<<"1", ".", "5">> :> FltV(3))
    @@ (<<"0", ".", "5">> :> FltV(1)) @@ (<<"i", "n", "f">> :> Inf) @@ (<<"n", "a", "n">> :> NaN)
float(s) ==
    IF s \in DOMAIN FloatSpellings THEN Ok(FloatSpellings[s])
    ELSE Raise("ValueError", <<"could not convert string to float">>)

\* float.is_integer and int(value)
is_integer(value) == value.c = "fin" /\ value.n % 2 = 0
int(value) == IntV(value.n \div 2)

\* how the host's parser reads the lines of the catalogue that reach it
SourceTrees ==
    (<<"0">> :> Constant(IntV(0))) @@ (<<"1">> :> Constant(IntV(1)))
    @@ (<<"2">> :> Constant(IntV(2))) @@ (<<"4">> :> Constant(IntV(4)))
    @@ (<<"-", "1">> :> UnaryOp("USub", Constant(IntV(1))))
    @@ (<<"1", ".", "5">> :> Constant(FltV(3))) @@ (<<"0", ".", "5">> :> Constant(FltV(1)))
    @@ (<<"1", "+", "1">> :> BinOp("Add", Constant(IntV(1)), Constant(IntV(1))))
    @@ (<<"1", "/", "0">> :> ZeroDiv)
    @@ (<<"1", ".", "5", "*", "*", "4">> :> BinOp("Pow", Constant(FltV(3)), Constant(IntV(4))))
    @@ (<<"(", "-", "1", ")", "*", "*", "0", ".", "5">> :> ComplexPow)
NameLines == {<<"i", "n", "f">>, <<"n", "a", "n">>, <<"g">>, <<"G">>, <<"e">>, <<"E">>, <<"x">>}
MalformedLines == {<<"+">>, <<"-">>, <<"*">>, <<"/">>, <<"/", "/">>, <<"%">>, <<"*", "*">>, <<"2", " ", "+">>}
SourceText(expr) ==
    CASE expr \in DOMAIN SourceTrees -> TextOf(SourceTrees[expr])
      [] expr \in NameLines -> TextOf(Name)
      [] expr \in MalformedLines -> Malformed

\* what the user may type at any prompt
Lines ==
    {<<"s", "a", "i", "r">>, <<"Q", "U", "I", "T">>, <<"E", "x", "i", "t">>, <<"q">>, <<"Q">>, <<" ", "q", " ">>}
    \cup {<<"m", "e", "n", "u">>, <<"M">>, <<"M", "e", "n", "u">>}
    \cup {<<>>, <<" ">>}
    \cup DOMAIN FloatSpellings \cup DOMAIN SourceTrees
    \cup NameLines \cup MalformedLines
Inputs == Lines \cup {EOF}

\* the prompts of the session
Prompts == {"mode", "first", "operation", "second", "expression"}

\* where the session stands after a step and what the step printed
Goes(p, f, c, text) ==
    /\ prompt' = p
    /\ first' = f
    /\ chosen' = c
    /\ printed' = text
    /\ UNCHANGED <<status, ended_by>>

\* the process ends: main returned n, SystemExit(n) reached the top, or an
\* exception nothing caught did (the host prints a traceback, status 1)
Ends(n, by, text) ==
    /\ prompt' = "ended"
    /\ first' = NoValue
    /\ chosen' = <<>>
    /\ printed' = text
    /\ status' = n
    /\ ended_by' = by

\* input(...) returned a line or raised EOFError
Reads(in) ==
    /\ line' = in
    /\ asked' = prompt

\* main(argv) with arguments: one evaluation, status 0 or 1
MainArguments(text) ==
    /\ prompt = "start"
    /\ evaluate_expression(text)
    /\ IF result'.exc = "none"
       THEN Ends("0", "argument", <<"value", result'.val>>)
       ELSE Ends("1", "argument", <<"Erro", result'.msg>>)
    /\ UNCHANGED <<earlier, line, asked>>

\* main([]) up to the first prompt: _print_header
MainInteractive ==
    /\ prompt = "start"
    /\ Goes("mode", NoValue, <<>>, <<"Calculadora Simples (segura)">>)
    /\ UNCHANGED <<calc_vars, line, asked>>

\* main's loop: the mode prompt
ModePrompt(in) ==
    /\ prompt = "mode"
    /\ Reads(in)
    /\ IF in = EOF THEN Ends("0", "eof", <<"">>)
       ELSE LET choice == strip(in)
            IN  IF _is_exit(choice) THEN Ends("0", "exit", <<>>)
                ELSE IF choice \in {<<"1">>, <<"g">>, <<"G">>}
                THEN Goes("first", NoValue, <<>>, <<"Modo guiado">>)
                ELSE IF choice \in {<<"2">>, <<"e">>, <<"E">>}
                THEN Goes("expression", NoValue, <<>>, <<"Modo expressao">>)
                ELSE Goes("mode", NoValue, <<>>, <<"Opcao invalida">>)
    /\ UNCHANGED calc_vars

\* one round of _parse_number_input's loop: what a line leads to
_parse_number_input(in) ==
    IF in = EOF THEN [kind |-> "EOFError"]
    ELSE LET s == strip(in)
         IN  IF _is_exit(s) THEN [kind |-> "SystemExit"]
             ELSE IF _is_menu(s) THEN [kind |-> "menu"]
             ELSE LET value == float(s)
                  IN  IF value.exc # "none" THEN [kind |-> "again"]
                      ELSE IF is_integer(value.val)
                      THEN [kind |-> "number", value |-> int(value.val)]
                      ELSE [kind |-> "number", value |-> value.val]

\* one round of _choose_operation's loop
_choose_operation(in) ==
    IF in = EOF THEN [kind |-> "EOFError"]
    ELSE LET s == strip(in)
         IN  IF _is_exit(s) THEN [kind |-> "SystemExit"]
             ELSE IF _is_menu(s) THEN [kind |-> "menu"]
             ELSE IF s \in DOMAIN OP_SYMBOL_TO_FUNC
             THEN [kind |-> "symbol", value |-> s]
             ELSE [kind |-> "again"]

\* what _guided_loop and main do with an answer that is not a value
Otherwise(answer, invalid) ==
    CASE answer.kind = "EOFError" -> Ends("1", "eof", <<"Traceback", "EOFError">>)
      [] answer.kind = "SystemExit" -> Ends("0", "exit", <<>>)
      [] answer.kind = "menu" -> Goes("mode", NoValue, <<>>, <<>>)
      [] answer.kind = "again" -> Goes(prompt, first, chosen, <<invalid>>)

\* _guided_loop: the prompt for the first number
GuidedFirst(in) ==
    /\ prompt = "first"
    /\ Reads(in)
    /\ LET answer == _parse_number_input(in)
       IN  IF answer.kind = "number"
           THEN Goes("operation", answer.value, <<>>, <<>>)
           ELSE Otherwise(answer, "Entrada invalida")
    /\ UNCHANGED calc_vars

\* _guided_loop: the prompt for the operation
GuidedOperation(in) ==
    /\ prompt = "operation"
    /\ Reads(in)
    /\ LET answer == _choose_operation(in)
       IN  IF answer.kind = "symbol"
           THEN Goes("second", first, answer.value, <<>>)
           ELSE Otherwise(answer, "Operacao invalida")
    /\ UNCHANGED calc_vars

\* _guided_loop: the prompt for the second number, then the calculation;
\* only ZeroDivisionError is caught
GuidedSecond(in) ==
    /\ prompt = "second"
    /\ Reads(in)
    /\ LET answer == _parse_number_input(in)
       IN  IF answer.kind = "number"
           THEN LET func == OP_SYMBOL_TO_FUNC[chosen]
                    out == BinaryFunc(func, first, answer.value)
                IN  IF out.exc = "none"
                    THEN Goes("first", NoValue, <<>>, <<"Resultado", out.val>>)
                    ELSE IF out.exc = "ZeroDivisionError"
                    THEN Goes("first", NoValue, <<>>,
                              <<"Erro: divisao por zero nao e permitida.">>)
                    ELSE Ends("1", out.exc, <<"Traceback", out.exc>>)
           ELSE Otherwise(answer, "Entrada invalida")
    /\ UNCHANGED calc_vars

\* _expression_loop: the >>> prompt; every Exception of the evaluation is
\* caught and printed
ExpressionPrompt(in) ==
    /\ prompt = "expression"
    /\ Reads(in)
    /\ IF in = EOF
       THEN Ends("1", "eof", <<"Traceback", "EOFError">>) /\ UNCHANGED calc_vars
       ELSE LET expr == strip(in)
            IN  IF _is_exit(expr)
                THEN Ends("0", "exit", <<>>) /\ UNCHANGED calc_vars
                ELSE IF _is_menu(expr)
                THEN Goes("mode", NoValue, <<>>, <<>>) /\ UNCHANGED calc_vars
                ELSE IF expr = <<>>
                THEN Goes("expression", NoValue, <<>>, <<>>) /\ UNCHANGED calc_vars
                ELSE /\ evaluate_expression(SourceText(expr))
                     /\ UNCHANGED earlier
                     /\ IF result'.exc = "none"
                        THEN Goes("expression", NoValue, <<>>,
                                  <<"value", result'.val>>)
                        ELSE Goes("expression", NoValue, <<>>,
                                  <<"Erro", result'.msg>>)

InitCLI == InitCalls

NextCLI ==
    \/ \E text \in CallTexts : MainArguments(text)
    \/ MainInteractive
    \/ \E in \in Inputs : ModePrompt(in)
    \/ \E in \in Inputs : GuidedFirst(in)
    \/ \E in \in Inputs : GuidedOperation(in)
    \/ \E in \in Inputs : GuidedSecond(in)
    \/ \E in \in Inputs : ExpressionPrompt(in)

SpecCLI == InitCLI /\ [][NextCLI]_vars

(* ======================= properties of one call ======================== *)

Done == pc \in {"returned", "raised"}
Parsed == Done /\ expression.syntax = "ok"

\* the whitelist as the specification states it: int and float literals,
\* + - * / // % ** and unary + -
RECURSIVE AllWhitelisted(_)
AllWhitelisted(node) ==
    CASE node.cls = "Constant" -> node.value.k \in {"int", "float"}
      [] node.cls = "BinOp" ->
            /\ node.op \in {"Add", "Sub", "Mult", "Div", "FloorDiv", "Mod", "Pow"}
            /\ AllWhitelisted(node.left)
            /\ AllWhitelisted(node.right)
      [] node.cls = "UnaryOp" ->
            node.op \in {"UAdd", "USub"} /\ AllWhitelisted(node.operand)
      [] OTHER -> FALSE

\* the specification's error kinds, as the exceptions the code raises
InvalidExpression(out) == out.exc = "ValueError" /\ out.msg = <<"Expressao invalida">>
UnsupportedConstruct(out) == out.exc = "ValueError" /\ out.msg # <<"Expressao invalida">>
DivisionByZero(out) == out.exc = "ZeroDivisionError"

IsPrefix(p, q) == Len(p) <= Len(q) /\ SubSeq(q, 1, Len(p)) = p
\* the positions of the trace whose event lies at or below a path
Under(path) == {i \in 1..Len(trace) : IsPrefix(path, trace[i][2])}
\* the evaluation of a sub-expression on its own
ValueOf(node) == visit(FreshEvaluator, node, <<>>).out

\* C1: evaluate_expression returns a value only when every node of the
\* parsed tree is whitelisted; a tree with a node outside the whitelist,
\* wherever it sits, ends in an error
C1_ValueOnlyFromWhitelistedTree ==
    pc = "returned" => expression.syntax = "ok" /\ AllWhitelisted(expression.body)

\* a rejected operator in the right operand of a whitelisted addition
C1_Witness ==
    /\ pc = "raised"
    /\ expression = TextOf(BinOp("Add", Constant(IntV(1)),
                                 UnaryOp("Not", Constant(IntV(1)))))

\* C2 as stated: a parsed text with a node or operator outside the whitelist
\* fails with UnsupportedConstruct, whatever else it contains
C2_AlwaysUnsupportedConstruct ==
    (Parsed /\ ~AllWhitelisted(expression.body)) => UnsupportedConstruct(result)

\* the call failed before the evaluator rejected anything: the last thing it
\* did was to apply an operator of a sub-expression that is whitelisted
\* throughout, and that sub-expression's own error is the outcome
EarlierArithmeticError ==
    /\ trace # <<>>
    /\ \A i \in 1..Len(trace) : trace[i][1] # "raise"
    /\ LET last == trace[Len(trace)]
           sub == NodeAt(Expression(expression.body), last[2])
       IN  /\ last[1] = "apply"
           /\ AllWhitelisted(sub)
           /\ ValueOf(sub) = result

\* C2, amended: such a text always fails; it fails with UnsupportedConstruct
\* unless a whitelisted sub-expression evaluated before the rejected node or
\* operator is reached fails first, and then with that sub-expression's error
C2_UnsupportedUnlessEarlierError ==
    (Parsed /\ ~AllWhitelisted(expression.body)) =>
        /\ pc = "raised"
        /\ UnsupportedConstruct(result) \/ EarlierArithmeticError

\* a division by zero to the right of a rejected name: the name is rejected
C2_Witness ==
    /\ expression = TextOf(BinOp("Add", Name, ZeroDiv))
    /\ UnsupportedConstruct(result)

IsNumber(v) == v.k \in {"int", "float"}
IsNegative(v) == IsNumber(v) /\ FSgn(v) < 0

\* C3: a binary operation whose operands both evaluate, with / // % and a
\* zero right operand, or ** with a zero base and a negative exponent, fails
\* with DivisionByZero
C3_ZeroDivisorRaisesDivisionByZero ==
    (Parsed /\ expression.body.cls = "BinOp") =>
        LET node == expression.body
            l == ValueOf(node.left)
            r == ValueOf(node.right)
        IN  ( /\ l.exc = "none"
              /\ r.exc = "none"
              /\ \/ /\ node.op \in {"Div", "FloorDiv", "Mod"}
                    /\ IsNumber(r.val) /\ IsZero(r.val)
                 \/ /\ node.op = "Pow"
                    /\ IsNumber(l.val) /\ IsZero(l.val)
                    /\ IsNegative(r.val) )
            => DivisionByZero(result)

\* C4: whatever evaluate_expression returns is an int or a float
C4_ResultIsNumber ==
    pc = "returned" => IsNumber(result.val)

\* an integer operand as the host parses it: a literal, or the negation of one
IsIntOperand(node) ==
    \/ node.cls = "Constant" /\ node.value.k = "int"
    \/ /\ node.cls = "UnaryOp" /\ node.op = "USub"
       /\ node.operand.cls = "Constant" /\ node.operand.value.k = "int"
IntOf(node) == IF node.cls = "Constant" THEN node.value.n ELSE -node.operand.value.n

\* the text is a OP b for integers a and b, b # 0
IsIntPair(ops) ==
    /\ Parsed
    /\ expression.body.cls = "BinOp"
    /\ expression.body.op \in ops
    /\ IsIntOperand(expression.body.left)
    /\ IsIntOperand(expression.body.right)
    /\ IntOf(expression.body.right) # 0
ArgA == IntOf(expression.body.left)
ArgB == IntOf(expression.body.right)

\* floor(a / b): the integer q with q <= a/b < q + 1
FloorOf(a, b) ==
    CHOOSE q \in -(Abs(a) + 1)..(Abs(a) + 1) :
        IF b > 0 THEN q * b <= a /\ a < (q + 1) * b
                 ELSE q * b >= a /\ a > (q + 1) * b

\* what evaluate_expression gives for a OP b
EvalPair(op, a, b) ==
    evaluate_with(SafeEvaluator,
                  TextOf(BinOp(op, expression.body.left, expression.body.right))).out

\* C5: for all integers a, b with b # 0, a // b is floor(a / b), a % b has
\* the sign of b (or is zero), and b * (a // b) + (a % b) = a
C5_FloorDivisionAndModulo ==
    IsIntPair({"FloorDiv", "Mod"}) =>
        LET q == EvalPair("FloorDiv", ArgA, ArgB)
            r == EvalPair("Mod", ArgA, ArgB)
        IN  /\ pc = "returned"
            /\ result = IF expression.body.op = "FloorDiv" THEN q ELSE r
            /\ q = Ok(IntV(FloorOf(ArgA, ArgB)))
            /\ r.exc = "none" /\ r.val.k = "int"
            /\ r.val.n = 0 \/ Sgn(r.val.n) = Sgn(ArgB)
            /\ ArgB * q.val.n + r.val.n = ArgA

\* -3 // 2 = -2: the floor, not the truncation
C5_Witness ==
    /\ IsIntPair({"FloorDiv"})
    /\ ArgA = -3 /\ ArgB = 2
    /\ result = Ok(IntV(-2))

\* C6 as stated: for all integers a, b with b # 0, a / b yields a float,
\* and + - * on two integers yield an integer
C6_IntDivisionAlwaysYieldsFloat ==
    /\ IsIntPair({"Div"}) => pc = "returned" /\ result.val.k = "float"
    /\ IsIntPair({"Add", "Sub", "Mult"}) => pc = "returned" /\ result.val.k = "int"

\* C6, amended: a / b never yields an integer; it yields a float whenever
\* the quotient is within the float range, and otherwise a float or an
\* OverflowError; + - * on two integers yield an integer
C6_IntDivisionYieldsFloatInRange ==
    /\ IsIntPair({"Div"}) =>
          /\ \/ pc = "returned" /\ result.val.k = "float"
             \/ result.exc = "OverflowError"
          /\ Abs(ArgA) <= FloatMax * Abs(ArgB) => pc = "returned"
    /\ IsIntPair({"Add", "Sub", "Mult"}) => pc = "returned" /\ result.val.k = "int"

\* 4 / 2 is the float 2.0
C6_Witness ==
    /\ IsIntPair({"Div"})
    /\ ArgA = 4 /\ ArgB = 2
    /\ result = Ok(FltV(4))

\* the paths of the binary operations the call visited
VisitedBinOps ==
    {trace[i][2] : i \in {j \in 1..Len(trace) :
        /\ trace[j][1] = "visit"
        /\ NodeAt(Expression(expression.body), trace[j][2]).cls = "BinOp"}}

\* C10: evaluation is post-order, left to right, and stops at the first
\* error: at every binary operation the left operand is evaluated entirely
\* before the right one and both before the operator is applied; when the
\* left operand fails the right one is never visited and the left operand's
\* error is the outcome of the call
C10_LeftThenRightThenApply ==
    Parsed =>
        \A p \in VisitedBinOps :
            LET node == NodeAt(Expression(expression.body), p)
                lefts == Under(Append(p, "left"))
                rights == Under(Append(p, "right"))
                own == {i \in 1..Len(trace) : trace[i][2] = p /\ trace[i][1] # "visit"}
            IN  /\ lefts # {}
                /\ \A i \in lefts, j \in rights : i < j
                /\ \A i \in lefts \cup rights, j \in own : i < j
                /\ own # {} => rights # {}
                /\ ValueOf(node.left).exc # "none" =>
                      rights = {} /\ result = ValueOf(node.left)

\* a division by zero on the left of a rejected name: the name is never
\* visited and the division's error is the outcome
C10_Witness ==
    /\ expression = TextOf(BinOp("Add", ZeroDiv, Name))
    /\ result.exc = "ZeroDivisionError"
    /\ Under(<<"body", "right">>) = {}

(* ==================== properties of a sequence of calls ================= *)

\* C7: evaluation is stateless and deterministic: two calls with the same
\* text in one run have the same outcome (the same value or the same error),
\* whatever was evaluated between them, and no call changes what a later
\* call works with (the operator tables stay as the class statement set them)
C7_SameTextSameOutcome ==
    /\ \A i, j \in 1..Len(earlier) :
          earlier[i].text = earlier[j].text => earlier[i].out = earlier[j].out
    /\ binary_operators = BinaryOperatorsInit
    /\ unary_operators = UnaryOperatorsInit

\* 2 ** 2 evaluated, then a failing text, then 2 ** 2 again
C7_Witness ==
    /\ Len(earlier) = 3
    /\ earlier[1].text = TextOf(BinOp("Pow", Constant(IntV(2)), Constant(IntV(2))))
    /\ earlier[1].out = Ok(IntV(4))
    /\ earlier[2].text = TextOf(ZeroDiv)
    /\ earlier[2].out.exc = "ZeroDivisionError"
    /\ earlier[3].text = earlier[1].text
    /\ result = Ok(IntV(4))

(* ================= properties of the interactive session ================ *)

\* no step of the session computes outside the modelled arithmetic
SessionStaysModelled ==
    /\ result.exc # "Unmodelled"
    /\ ended_by # "Unmodelled"

\* C8: a calculation failure never ends the interactive session, in the
\* expression mode and in the guided mode alike: a session that has ended
\* was ended by an exit command or by the end of the input
C8_OnlyExitOrEndOfInputEndsSession ==
    (prompt = "ended" /\ ended_by # "argument") => ended_by \in {"exit", "eof"}

\* the spellings of the exit commands in the catalogue of lines
ExitSpellings ==
    {<<"s", "a", "i", "r">>, <<"Q", "U", "I", "T">>, <<"E", "x", "i", "t">>,
     <<"q">>, <<"Q">>}

\* C9: at every prompt of the session, a line that is sair, quit, exit or q
\* in any letter case ends the session with exit status 0: the step that
\* reads it asks nothing more, prints nothing and calculates nothing
C9_ExitCommandEndsSession ==
    [][(prompt \in Prompts /\ line' \in ExitSpellings)
        => /\ prompt' = "ended"
           /\ status' = "0"
           /\ ended_by' = "exit"
           /\ printed' = <<>>
           /\ UNCHANGED calc_vars]_vars

\* QUIT typed where the second number of a guided calculation is asked for
C9_Witness ==
    /\ prompt = "ended"
    /\ asked = "second"
    /\ line = <<"Q", "U", "I", "T">>
    /\ status = "0"
    /\ ended_by = "exit"

====
